---- MODULE Spec2Model ----
(***************************************************************************)
(* A model of tools/create_gbl.py: the three text parsers, the parent      *)
(* directory search, and the post-build script that resolves the GBL       *)
(* metadata, writes gbl_metadata.json and invokes `commander`.             *)
(*                                                                         *)
(* Text is a sequence of symbols.  For parse_simple_config and              *)
(* parse_properties_file a symbol is one character; for                    *)
(* parse_c_header_defines a symbol is a character or an indivisible piece  *)
(* of text ("#define", an identifier, a literal), and the text is the      *)
(* concatenation of its symbols.  Each parser is modelled by a per-line    *)
(* step operator; its loop is run line by line by the actions of the       *)
(* parser's own specification, and folded over the text where the script   *)
(* calls the parser.                                                       *)
(***************************************************************************)
EXTENDS Integers, Sequences, FiniteSets, TLC

VARIABLES
    \* ---- the parsers' loops (lines 18-96)
    file_content,   \* the text being parsed
    line_no,        \* number of lines already consumed by the for loop
    config,         \* `config` / `properties`: the mapping built so far
    outcome,        \* "idle", "running", "returned" or the exception raised
    \* ---- the inner while loop of parse_properties_file (lines 74-94)
    key,            \* key of the line being tokenized
    value,          \* text after the first "=" of the line being tokenized
    i,              \* 0-based scan index into value
    current_value,  \* token being accumulated
    in_line,        \* TRUE while the while loop of a line is running
    first_token,    \* result of properties["version"][0] (lines 185, 213)
    \* ---- find_file_in_parent_dirs (lines 99-114)
    root,           \* the directory being examined: its names from "/" down
    start,          \* the resolved starting directory
    holds_file,     \* the directories that contain a file named filename
    found,          \* the returned path
    \* ---- the script (lines 117-269)
    postbuild,      \* "postbuild" in sys.argv
    pc,             \* the statement the script is at
    error,          \* the exception that ended the script, "none" if none
    failed_at,      \* the statement that raised it
    out_file,       \* path of the built binary
    gsdk_path,      \* path of the SDK
    slcp,           \* the parsed project file
    device_part_id,
    gbl_metadata,   \* the parsed gbl_metadata.yaml
    metadata,       \* the metadata record
    gbl_dynamic,    \* the declared dynamic fields
    files_read,     \* the text each file read so far held ("missing" files too)
    written,        \* the contents written to gbl_metadata.json, in order
    commander_args, \* the invocation token sequence
    invoked         \* the invocations of the external tool, each with its exit code

parserVars == <<file_content, line_no, config, outcome>>
tokenVars  == <<key, value, i, current_value, in_line, first_token>>
findVars   == <<root, start, holds_file, found>>
scriptVars == <<postbuild, pc, error, failed_at, out_file, gsdk_path, slcp,
                device_part_id, gbl_metadata, metadata, gbl_dynamic, files_read,
                written, commander_args, invoked>>
vars == <<parserVars, tokenVars, findVars, scriptVars>>

(***************************************************************************)
(* Bounds of the model.                                                    *)
(***************************************************************************)
MaxSimpleLen == 6   \* longest text given to parse_simple_config
MaxDefineLen == 5   \* most symbols of a text given to parse_c_header_defines
MaxPropsLen  == 5   \* most symbols of a text given to parse_properties_file
MaxDepth     == 3   \* deepest starting directory of find_file_in_parent_dirs
MaxUnknown   == 1   \* number of unrecognized names a `dynamic` list may hold

(***************************************************************************)
(* Python str helpers.                                                     *)
(***************************************************************************)
Range(s) == {s[n] : n \in DOMAIN s}

Whitespace == {" ", "\t"}

\* All texts over alphabet A of length at most n.
TextsUpTo(A, n) == UNION {[1..m -> A] : m \in 0..n}

RECURSIVE lstrip(_)
lstrip(s) == IF s # <<>> /\ Head(s) \in Whitespace THEN lstrip(Tail(s)) ELSE s

RECURSIVE rstrip(_)
rstrip(s) ==
    IF s # <<>> /\ s[Len(s)] \in Whitespace
    THEN rstrip(SubSeq(s, 1, Len(s) - 1))
    ELSE s

\* str.strip()
strip(s) == rstrip(lstrip(s))

\* s[a:b] for 0 <= a <= b, clamped to the text as Python slices are
slice(s, a, b) ==
    LET hi == IF b < Len(s) THEN b ELSE Len(s) IN
    IF a >= hi THEN <<>> ELSE SubSeq(s, a + 1, hi)

\* str.startswith(prefix)
startswith(s, prefix) ==
    Len(s) >= Len(prefix) /\ SubSeq(s, 1, Len(prefix)) = prefix

\* str.find(c) + 1 for a one-character c: position of the first c, 0 if none
RECURSIVE find_char(_, _, _)
find_char(s, c, from) ==
    IF from > Len(s) THEN 0
    ELSE IF s[from] = c THEN from
    ELSE find_char(s, c, from + 1)

\* str.split(c, 1): the list of one or two parts
split_once(s, c) ==
    LET p == find_char(s, c, 1) IN
    IF p = 0 THEN <<s>>
    ELSE <<SubSeq(s, 1, p - 1), SubSeq(s, p + 1, Len(s))>>

\* str.split("\n"): the list of lines, never empty
RECURSIVE split_lines(_)
split_lines(s) ==
    LET p == find_char(s, "\n", 1) IN
    IF p = 0 THEN <<s>>
    ELSE <<SubSeq(s, 1, p - 1)>> \o split_lines(SubSeq(s, p + 1, Len(s)))

\* dict helpers
EmptyDict == [k \in {} |-> <<>>]
Put(d, k, v) == [x \in DOMAIN d \cup {k} |-> IF x = k THEN v ELSE d[x]]

(***************************************************************************)
(* parse_simple_config (lines 18-33)                                       *)
(***************************************************************************)
\* Mutation of the guard of line 27: the test for "=" is forgotten.
simple_skips_no_eq_test(line) ==
    line = <<>> \/ startswith(line, <<"#">>)

\* line 27: the stripped lines the loop skips
simple_skips(line) ==
    line = <<>> \/ startswith(line, <<"#">>) \/ "=" \notin Range(line)

\* lines 25-31: one iteration of the loop; `raised` is the failure of the
\* tuple unpacking of line 30 when split does not give two parts
simple_line_step(cfg, raw) ==
    LET line  == strip(raw)
        parts == split_once(line, "=")
    IN  IF simple_skips(line) THEN [config |-> cfg, raised |-> "none"]
        ELSE IF Len(parts) # 2 THEN [config |-> cfg, raised |-> "ValueError"]
        ELSE [config |-> Put(cfg, strip(parts[1]), strip(parts[2])),
              raised |-> "none"]

\* lines 22-33 as a function of the whole text (used where the script calls it)
RECURSIVE simple_fold(_, _, _)
simple_fold(cfg, lines, n) ==
    IF n > Len(lines) THEN [config |-> cfg, raised |-> "none"]
    ELSE LET r == simple_line_step(cfg, lines[n]) IN
         IF r.raised # "none" THEN r ELSE simple_fold(r.config, lines, n + 1)

parse_simple_config(text) == simple_fold(EmptyDict, split_lines(text), 1)

SimpleAlphabet == {"a", "=", "#", " ", "\n"}

IdleScript ==
    /\ postbuild = FALSE /\ pc = "idle" /\ error = "none" /\ failed_at = "none"
    /\ out_file = <<>> /\ gsdk_path = <<>> /\ slcp = <<>> /\ device_part_id = ""
    /\ gbl_metadata = <<>> /\ metadata = <<>> /\ gbl_dynamic = {}
    /\ files_read = <<>> /\ written = <<>> /\ commander_args = <<>>
    /\ invoked = <<>>
IdleToken ==
    /\ key = <<>> /\ value = <<>> /\ i = 0 /\ current_value = <<>>
    /\ in_line = FALSE /\ first_token = <<"?">>
IdleFind ==
    /\ root = <<>> /\ start = <<>> /\ holds_file = {} /\ found = <<>>

InitSimple ==
    /\ file_content \in TextsUpTo(SimpleAlphabet, MaxSimpleLen)
    /\ line_no = 0
    /\ config = EmptyDict
    /\ outcome = "running"
    /\ IdleToken /\ IdleFind /\ IdleScript

\* lines 24-31: the loop body for the next line
SimpleLine ==
    /\ outcome = "running"
    /\ line_no < Len(split_lines(file_content))
    /\ LET r == simple_line_step(config, split_lines(file_content)[line_no + 1]) IN
        /\ config' = r.config
        /\ outcome' = IF r.raised = "none" THEN "running" ELSE r.raised
    /\ line_no' = line_no + 1
    /\ UNCHANGED <<file_content, tokenVars, findVars, scriptVars>>

\* line 33: return config
SimpleReturn ==
    /\ outcome = "running"
    /\ line_no = Len(split_lines(file_content))
    /\ outcome' = "returned"
    /\ UNCHANGED <<file_content, line_no, config, tokenVars, findVars, scriptVars>>

NextSimple == SimpleLine \/ SimpleReturn

SpecSimple == InitSimple /\ [][NextSimple]_vars

(***************************************************************************)
(* Python values.                                                          *)
(***************************************************************************)
PyInt(n) == [t |-> "int", n |-> n]
PyStr(x) == [t |-> "str", s |-> x]
PyNone   == [t |-> "none"]

\* str(v)
str(v) == CASE v.t = "int"  -> ToString(v.n)
            [] v.t = "str"  -> v.s
            [] v.t = "none" -> "None"

\* "".join(symbols)
RECURSIVE concat(_)
concat(s) == IF s = <<>> THEN "" ELSE Head(s) \o concat(Tail(s))

(***************************************************************************)
(* ast.literal_eval on the symbols of a value (line 54).  The symbols a    *)
(* value is made of: decimal digits, the string literals of StrLit, the    *)
(* name None, identifiers, a dict display with an unhashable key, the      *)
(* text "#define" (which starts a Python comment) and whitespace.          *)
(***************************************************************************)
Digit == [d \in {"0", "1", "2", "3", "4", "5", "6", "7", "8", "9"} |->
            CASE d = "0" -> 0 [] d = "1" -> 1 [] d = "2" -> 2 [] d = "3" -> 3
              [] d = "4" -> 4 [] d = "5" -> 5 [] d = "6" -> 6 [] d = "7" -> 7
              [] d = "8" -> 8 [] d = "9" -> 9]

\* the string literals of the model and the strings they denote
StrLit == [l \in {"\"s\"", "\"-beta\"", "\"SL-OPENTHREAD/2.4.1.0\""} |->
             CASE l = "\"s\"" -> "s"
               [] l = "\"-beta\"" -> "-beta"
               [] l = "\"SL-OPENTHREAD/2.4.1.0\"" -> "SL-OPENTHREAD/2.4.1.0"]

UnhashableDisplay == "{[]:4}"

RECURSIVE decimal(_, _)
decimal(s, acc) ==
    IF s = <<>> THEN acc ELSE decimal(Tail(s), 10 * acc + Digit[Head(s)])

RECURSIVE join_literals(_)
join_literals(s) ==
    IF s = <<>> THEN ""
    ELSE IF Head(s) \in Whitespace THEN join_literals(Tail(s))
    ELSE StrLit[Head(s)] \o join_literals(Tail(s))

\* the source text up to the comment that "#" starts
strip_comment(s) ==
    LET p == find_char(s, "#define", 1) IN
    IF p = 0 THEN s ELSE SubSeq(s, 1, p - 1)

\* ast.literal_eval(value): [exc |-> "none", val |-> v] or the exception raised;
\* is_none says that the argument is None, not a text
literal_eval(v, is_none) ==
    IF is_none THEN [exc |-> "ValueError"]           \* malformed node: None
    ELSE
    LET body == strip(strip_comment(v)) IN
    CASE body # <<>> /\ Range(body) \subseteq DOMAIN Digit
            /\ (Len(body) = 1 \/ body[1] # "0" \/ Range(body) = {"0"})
            -> [exc |-> "none", val |-> PyInt(decimal(body, 0))]
      [] body # <<>> /\ Range(body) \subseteq (DOMAIN StrLit \cup Whitespace)
            -> [exc |-> "none", val |-> PyStr(join_literals(body))]
      [] body = <<"None">>
            -> [exc |-> "none", val |-> PyNone]
      [] body = <<UnhashableDisplay>>
            -> [exc |-> "TypeError"]                 \* unhashable type: 'list'
      [] OTHER
            -> [exc |-> "SyntaxError"]               \* or ValueError: both caught

(***************************************************************************)
(* parse_c_header_defines (lines 36-58)                                    *)
(***************************************************************************)
\* str.split(None, maxsplit)
RECURSIVE split_whitespace(_, _)
split_whitespace(s, maxsplit) ==
    LET t == lstrip(s)
        p == CHOOSE n \in 1..(Len(t) + 1) :
                /\ n = Len(t) + 1 \/ t[n] \in Whitespace
                /\ \A m \in 1..(n - 1) : t[m] \notin Whitespace
    IN  IF t = <<>> THEN <<>>
        ELSE IF maxsplit = 0 THEN <<t>>
        ELSE <<SubSeq(t, 1, p - 1)>>
                \o split_whitespace(SubSeq(t, p, Len(t)), maxsplit - 1)

\* line 55: the exceptions of literal_eval the parser swallows
define_caught == {"ValueError", "SyntaxError"}

\* lines 48-51: key, value = key_value, or key_value + [None]; the second
\* unpacking fails when the line holds no name
define_unpack(key_value) ==
    IF Len(key_value) = 2
    THEN [exc |-> "none", key |-> key_value[1], value |-> key_value[2],
          value_is_none |-> FALSE]
    ELSE IF Len(key_value) = 1
    THEN [exc |-> "none", key |-> key_value[1], value |-> <<>>,
          value_is_none |-> TRUE]
    ELSE [exc |-> "ValueError"]

\* lines 43-56: one iteration of the loop
define_line_step(cfg, line) ==
    IF ~startswith(line, <<"#define">>) THEN [config |-> cfg, raised |-> "none"]
    ELSE
    LET key_value == Tail(split_whitespace(line, 2))
        kv == define_unpack(key_value)
    IN  IF kv.exc # "none" THEN [config |-> cfg, raised |-> kv.exc]
        ELSE LET r == literal_eval(kv.value, kv.value_is_none) IN
             IF r.exc = "none"
             THEN [config |-> Put(cfg, concat(kv.key), r.val), raised |-> "none"]
             ELSE IF r.exc \in define_caught
             THEN [config |-> cfg, raised |-> "none"]
             ELSE [config |-> cfg, raised |-> r.exc]

RECURSIVE define_fold(_, _, _)
define_fold(cfg, lines, n) ==
    IF n > Len(lines) THEN [config |-> cfg, raised |-> "none"]
    ELSE LET r == define_line_step(cfg, lines[n]) IN
         IF r.raised # "none" THEN r ELSE define_fold(r.config, lines, n + 1)

\* lines 40-58 as a function of the whole text
parse_c_header_defines(text) == define_fold(EmptyDict, split_lines(text), 1)

DefineAlphabet ==
    {"#define", "K", "4", "\"s\"", "None", UnhashableDisplay, " ", "\n"}

InitDefines ==
    /\ file_content \in TextsUpTo(DefineAlphabet, MaxDefineLen)
    /\ line_no = 0
    /\ config = EmptyDict
    /\ outcome = "running"
    /\ IdleToken /\ IdleFind /\ IdleScript

\* lines 42-56: the loop body for the next line
DefineLine ==
    /\ outcome = "running"
    /\ line_no < Len(split_lines(file_content))
    /\ LET r == define_line_step(config, split_lines(file_content)[line_no + 1]) IN
        /\ config' = r.config
        /\ outcome' = IF r.raised = "none" THEN "running" ELSE r.raised
    /\ line_no' = line_no + 1
    /\ UNCHANGED <<file_content, tokenVars, findVars, scriptVars>>

\* line 58: return config
DefineReturn ==
    /\ outcome = "running"
    /\ line_no = Len(split_lines(file_content))
    /\ outcome' = "returned"
    /\ UNCHANGED <<file_content, line_no, config, tokenVars, findVars, scriptVars>>

NextDefines == DefineLine \/ DefineReturn

SpecDefines == InitDefines /\ [][NextDefines]_vars

(***************************************************************************)
(* parse_properties_file (lines 61-96)                                     *)
(***************************************************************************)
\* line 71: the stripped lines the loop skips
props_skips(line) == line = <<>> \/ startswith(line, <<"#">>)

\* line 69: line = line.strip()
props_strip(raw) == strip(raw)

\* Mutation of lines 82-84: the escape advances by one character only.
scan_step_escape_advances_one(val, st) ==
    LET n == st.i + 1 IN
    IF slice(val, st.i, st.i + 2) = <<"\\", "\\">>
    THEN [st EXCEPT !.current_value = @ \o <<" ">>, !.i = @ + 1]
    ELSE IF val[n] = " "
    THEN [st EXCEPT !.tokens = Append(@, st.current_value),
                    !.current_value = <<>>, !.i = @ + 1]
    ELSE [st EXCEPT !.current_value = Append(@, val[n]), !.i = @ + 1]

\* lines 82-91: one iteration of the while loop, at 0-based index st.i
scan_step(val, st) ==
    LET n == st.i + 1 IN
    IF slice(val, st.i, st.i + 2) = <<"\\", "\\">>
    THEN [st EXCEPT !.current_value = @ \o <<" ">>, !.i = @ + 2]
    ELSE IF val[n] = " "
    THEN [st EXCEPT !.tokens = Append(@, st.current_value),
                    !.current_value = <<>>, !.i = @ + 1]
    ELSE [st EXCEPT !.current_value = Append(@, val[n]), !.i = @ + 1]

\* lines 93-94: the token left at the end of the line
end_of_line(tokens, cur) == IF cur # <<>> THEN Append(tokens, cur) ELSE tokens

\* lines 78-94 for one value
RECURSIVE scan_fold(_, _)
scan_fold(val, st) ==
    IF st.i < Len(val) THEN scan_fold(val, scan_step(val, st))
    ELSE end_of_line(st.tokens, st.current_value)

\* lines 69-94: one iteration of the for loop
props_line_step(props, raw) ==
    LET line  == props_strip(raw)
        parts == split_once(line, "=")
    IN  IF props_skips(line) THEN [config |-> props, raised |-> "none"]
        ELSE IF Len(parts) # 2 THEN [config |-> props, raised |-> "ValueError"]
        ELSE [config |-> Put(props, strip(parts[1]),
                             scan_fold(parts[2],
                                 [i |-> 0, current_value |-> <<>>, tokens |-> <<>>])),
              raised |-> "none"]

RECURSIVE props_fold(_, _, _)
props_fold(props, lines, n) ==
    IF n > Len(lines) THEN [config |-> props, raised |-> "none"]
    ELSE LET r == props_line_step(props, lines[n]) IN
         IF r.raised # "none" THEN r ELSE props_fold(r.config, lines, n + 1)

\* lines 66-96 as a function of the whole text
parse_properties_file(text) == props_fold(EmptyDict, split_lines(text), 1)

\* lines 185 and 213: props["version"][0]
first_version(props) ==
    IF <<"version">> \notin DOMAIN props THEN [exc |-> "KeyError"]
    ELSE IF props[<<"version">>] = <<>> THEN [exc |-> "IndexError"]
    ELSE [exc |-> "none", val |-> props[<<"version">>][1]]

PropsAlphabet == {"version", "=", "\\", " ", "#", "\n"}

\* the example of the documentation: version=1\\2\\3 extra
ExampleProps ==
    <<"version", "=", "1", "\\", "\\", "2", "\\", "\\", "3", " ", "extra">>

InitProps ==
    /\ file_content \in TextsUpTo(PropsAlphabet, MaxPropsLen) \cup {ExampleProps}
    /\ line_no = 0
    /\ config = EmptyDict
    /\ outcome = "running"
    /\ IdleToken /\ IdleFind /\ IdleScript

\* lines 68-79: the for loop takes the next line
PropsLine ==
    /\ outcome = "running" /\ ~in_line
    /\ line_no < Len(split_lines(file_content))
    /\ line_no' = line_no + 1
    /\ LET line  == props_strip(split_lines(file_content)[line_no + 1])
           parts == split_once(line, "=")
       IN  IF props_skips(line)
           THEN UNCHANGED <<config, outcome, key, value, i, current_value, in_line>>
           ELSE IF Len(parts) # 2
           THEN /\ outcome' = "ValueError"
                /\ UNCHANGED <<config, key, value, i, current_value, in_line>>
           ELSE /\ key' = strip(parts[1])
                /\ value' = parts[2]
                /\ config' = Put(config, strip(parts[1]), <<>>)
                /\ current_value' = <<>>
                /\ i' = 0
                /\ in_line' = TRUE
                /\ UNCHANGED outcome
    /\ UNCHANGED <<file_content, first_token, findVars, scriptVars>>

\* lines 81-91: one iteration of the while loop
PropsScan ==
    /\ outcome = "running" /\ in_line
    /\ i < Len(value)
    /\ LET st == scan_step(value, [i |-> i, current_value |-> current_value,
                                   tokens |-> config[key]])
       IN  /\ i' = st.i
           /\ current_value' = st.current_value
           /\ config' = [config EXCEPT ![key] = st.tokens]
    /\ UNCHANGED <<file_content, line_no, outcome, key, value, in_line,
                   first_token, findVars, scriptVars>>

\* lines 93-94: the while loop is over
PropsEndLine ==
    /\ outcome = "running" /\ in_line
    /\ i >= Len(value)
    /\ config' = [config EXCEPT ![key] = end_of_line(@, current_value)]
    /\ in_line' = FALSE
    /\ UNCHANGED <<file_content, line_no, outcome, key, value, i, current_value,
                   first_token, findVars, scriptVars>>

\* line 96: return properties
PropsReturn ==
    /\ outcome = "running" /\ ~in_line
    /\ line_no = Len(split_lines(file_content))
    /\ outcome' = "returned"
    /\ UNCHANGED <<file_content, line_no, config, tokenVars, findVars, scriptVars>>

\* lines 185, 213: the version field is the first token of "version"
PropsFirstVersion ==
    /\ outcome = "returned"
    /\ LET r == first_version(config) IN
        IF r.exc = "none"
        THEN first_token' = r.val /\ outcome' = "extracted"
        ELSE first_token' = first_token /\ outcome' = r.exc
    /\ UNCHANGED <<file_content, line_no, config, key, value, i, current_value,
                   in_line, findVars, scriptVars>>

NextProps ==
    PropsLine \/ PropsScan \/ PropsEndLine \/ PropsReturn \/ PropsFirstVersion

SpecProps == InitProps /\ [][NextProps]_vars

(***************************************************************************)
(* find_file_in_parent_dirs (lines 99-114).  A directory is the sequence   *)
(* of its names below the filesystem root; the root is <<>>.  `root` is    *)
(* the path after root.resolve() (line 103): absolute, so that its chain   *)
(* of parents ends at the filesystem root.                                 *)
(***************************************************************************)
filename == "project.slcp"

\* Mutation of line 109: the search stops one directory below the root.
at_top_stops_early(dir) == Len(dir) <= 1

\* line 109: root.parent == root holds of the filesystem root only
at_top(dir) == dir = <<>>

\* pathlib's parent
parent(dir) == IF dir = <<>> THEN dir ELSE SubSeq(dir, 1, Len(dir) - 1)

\* (root / filename).exists()
exists(dir) == dir \in holds_file

DirNames == {"a", "b"}

\* the directories from dir up to the filesystem root
Chain(dir) == {SubSeq(dir, 1, n) : n \in 0..Len(dir)}

InitFind ==
    /\ start \in TextsUpTo(DirNames, MaxDepth)
    /\ root = start
    \* the file may lie anywhere along the chain, and below the start
    /\ holds_file \in SUBSET (Chain(start) \cup {Append(start, "a")})
    /\ found = <<>>
    /\ outcome = "running"
    /\ file_content = <<>> /\ line_no = 0 /\ config = EmptyDict
    /\ IdleToken /\ IdleScript

\* lines 106-107
FindReturn ==
    /\ outcome = "running"
    /\ exists(root)
    /\ found' = Append(root, filename)
    /\ outcome' = "returned"
    /\ UNCHANGED <<root, start, holds_file, file_content, line_no, config, tokenVars, scriptVars>>

\* lines 109-112
FindRaise ==
    /\ outcome = "running"
    /\ ~exists(root)
    /\ at_top(root)
    /\ outcome' = "FileNotFoundError"
    /\ UNCHANGED <<findVars, file_content, line_no, config, tokenVars, scriptVars>>

\* line 114
FindAscend ==
    /\ outcome = "running"
    /\ ~exists(root)
    /\ ~at_top(root)
    /\ root' = parent(root)
    /\ UNCHANGED <<start, holds_file, found, parserVars, tokenVars, scriptVars>>

NextFind == FindReturn \/ FindRaise \/ FindAscend

\* the loop is sequential code: it takes its next step whenever it has one
SpecFind == InitFind /\ [][NextFind]_vars /\ WF_vars(NextFind)

\* C5: the search terminates; it returns the file of the directory nearest to
\* the start (start first, root included) that contains it, and raises
\* FileNotFoundError if and only if no directory of the chain contains it.
C5_FindNearestOrFail ==
    /\ <>(outcome \in {"returned", "FileNotFoundError"})
    /\ [](outcome = "returned" =>
            \E dir \in Chain(start) \cap holds_file :
                /\ found = Append(dir, filename)
                /\ \A other \in Chain(start) \cap holds_file : Len(other) <= Len(dir))
    /\ [](outcome = "FileNotFoundError" => Chain(start) \cap holds_file = {})
    /\ [](outcome = "returned" => Chain(start) \cap holds_file # {})

\* the file lies in the root and in a directory between start and root, not in
\* start: the search has returned the nearer one
C5_Witness ==
    /\ outcome = "returned"
    /\ Len(start) = 3
    /\ holds_file \cap Chain(start) = {<<>>, SubSeq(start, 1, 1)}
    /\ found = <<start[1], filename>>

(***************************************************************************)
(* The script (lines 117-269).  Each statement that can fail is an action; *)
(* the files of the build tree are the environment: the text of a file is  *)
(* chosen when the script reads it, and recorded in files_read.            *)
(***************************************************************************)
PyList(items) == [t |-> "list", items |-> items]
Absent        == [t |-> "absent"]       \* a key the mapping does not hold
Missing       == <<"<no such file>">>   \* the text of a file that does not exist

\* dict.get(k, default)
get(d, k, default) == IF k \in DOMAIN d THEN d[k] ELSE default

\* a mapping of the keys of d whose value is not Absent
MakeDict(d) == [k \in {x \in DOMAIN d : d[x] # Absent} |-> d[k]]

\* pathlib: a path is its directory, stem and suffix
with_suffix(path, suffix) == [path EXCEPT !.suffix = suffix]
path_str(path) == path.dir \o "/" \o path.stem \o path.suffix
in_dir(dir, name) == dir \o "/" \o name

\* json.dumps of a value and of the record
json_value(v) == CASE v.t = "int"  -> ToString(v.n)
                   [] v.t = "str"  -> "\"" \o v.s \o "\""
                   [] v.t = "none" -> "null"
json_dumps(d) == [k \in DOMAIN d |-> json_value(d[k])]

\* ---- the order of the statements
\* Mutation: gbl_metadata.json is written before the dynamic fields are resolved.
step_after_write_first(p) ==
    CASE p = "find_slcp"         -> "gsdk_path"
      [] p = "gsdk_path"         -> "load_slcp"
      [] p = "load_slcp"         -> "device_part_id"
      [] p = "device_part_id"    -> "load_gbl_metadata"
      [] p = "load_gbl_metadata" -> "prepare_metadata"
      [] p = "prepare_metadata"  -> "write_metadata"
      [] p = "write_metadata"    -> "ezsp_version"
      [] p = "ezsp_version"      -> "cpc_version"
      [] p = "cpc_version"       -> "zwave_version"
      [] p = "zwave_version"     -> "ot_rcp_version"
      [] p = "ot_rcp_version"    -> "gecko_bootloader_version"
      [] p = "gecko_bootloader_version" -> "commander_args"
      [] p = "commander_args"    -> "run_commander"
      [] p = "run_commander"     -> "done"

\* Mutation: the external tool is run before gbl_metadata.json is written.
step_after_run_first(p) ==
    CASE p = "find_slcp"         -> "gsdk_path"
      [] p = "gsdk_path"         -> "load_slcp"
      [] p = "load_slcp"         -> "device_part_id"
      [] p = "device_part_id"    -> "load_gbl_metadata"
      [] p = "load_gbl_metadata" -> "prepare_metadata"
      [] p = "prepare_metadata"  -> "ezsp_version"
      [] p = "ezsp_version"      -> "cpc_version"
      [] p = "cpc_version"       -> "zwave_version"
      [] p = "zwave_version"     -> "ot_rcp_version"
      [] p = "ot_rcp_version"    -> "gecko_bootloader_version"
      [] p = "gecko_bootloader_version" -> "commander_args"
      [] p = "commander_args"    -> "run_commander"
      [] p = "run_commander"     -> "write_metadata"
      [] p = "write_metadata"    -> "done"

\* lines 128-269 in the order of the file
step_after(p) ==
    CASE p = "find_slcp"         -> "gsdk_path"
      [] p = "gsdk_path"         -> "load_slcp"
      [] p = "load_slcp"         -> "device_part_id"
      [] p = "device_part_id"    -> "load_gbl_metadata"
      [] p = "load_gbl_metadata" -> "prepare_metadata"
      [] p = "prepare_metadata"  -> "ezsp_version"
      [] p = "ezsp_version"      -> "cpc_version"
      [] p = "cpc_version"       -> "zwave_version"
      [] p = "zwave_version"     -> "ot_rcp_version"
      [] p = "ot_rcp_version"    -> "gecko_bootloader_version"
      [] p = "gecko_bootloader_version" -> "write_metadata"
      [] p = "write_metadata"    -> "commander_args"
      [] p = "commander_args"    -> "run_commander"
      [] p = "run_commander"     -> "done"

\* ---- the texts a file of the build tree may hold
Define(name, val) == <<"#define", " ", name, " ">> \o val
Lines2(a, b)      == a \o <<"\n">> \o b
Lines3(a, b, c)   == a \o <<"\n">> \o b \o <<"\n">> \o c

MakefileTexts ==
    { <<"BASE_SDK_PATH", " ", "=", " ", "/opt/gsdk">>,
      <<"#", "BASE_SDK_PATH", "=", "/opt/gsdk">> }              \* no such key

EsfTexts ==
    { <<"version", "=", "7.4.1.0", " ", "GA">>,
      <<"version", "=">>,                                       \* empty list
      <<"#", "version", "=", "7.4.1.0">>,                       \* no such key
      <<"version">> }                                           \* no "="

VersionHeaderTexts ==
    { Lines3(Define("SL_GSDK_MAJOR_VERSION", <<"4">>),
             Define("SL_GSDK_MINOR_VERSION", <<"2">>),
             Define("SL_GSDK_PATCH_VERSION", <<"0">>)),
      Lines3(Define("SL_GSDK_MAJOR_VERSION", <<"4">>),
             Define("SL_GSDK_MINOR_VERSION", <<"1", "2">>),
             Define("SL_GSDK_PATCH_VERSION", <<"1">>)),
      Lines2(Define("SL_GSDK_MAJOR_VERSION", <<"4">>),
             Define("SL_GSDK_MINOR_VERSION", <<"2">>)),         \* no PATCH
      Lines3(Define("SL_GSDK_MAJOR_VERSION", <<"4">>),
             Define("SL_GSDK_MINOR_VERSION", <<"2">>),
             Define("SL_GSDK_PATCH_VERSION", <<"K">>)) }        \* PATCH no literal

AppConfigTexts ==
    { <<>>,
      Define("CPC_SECONDARY_APP_VERSION_SUFFIX", <<"\"-beta\"">>),
      Define("CPC_SECONDARY_APP_VERSION_SUFFIX", <<"4">>),      \* an integer
      Define("CPC_SECONDARY_APP_VERSION_SUFFIX", <<"K">>) }     \* no literal

OpenthreadTexts ==
    { Define("PACKAGE_STRING", <<"\"SL-OPENTHREAD/2.4.1.0\"">>),
      Define("PACKAGE_STRING", <<"None">>),                     \* the literal None
      <<"#define", " ", "PACKAGE_STRING">> }                    \* no value

BootloaderTexts ==
    { Lines3(Define("BOOTLOADER_VERSION_MAIN_MAJOR", <<"2">>),
             Define("BOOTLOADER_VERSION_MAIN_MINOR", <<"4">>),
             Define("BOOTLOADER_VERSION_MAIN_CUSTOMER", <<"1">>)),
      Lines2(Define("BOOTLOADER_VERSION_MAIN_MAJOR", <<"2">>),
             Define("BOOTLOADER_VERSION_MAIN_MINOR", <<"4">>)) } \* no CUSTOMER

SlcpFiles ==
    { ("sdk" :> ("version" :> PyStr("4.4.0"))),
      ("sdk" :> EmptyDict),                                     \* no version
      EmptyDict }                                               \* no sdk

KnownFields == {"ezsp_version", "cpc_version", "zwave_version", "ot_rcp_version",
                "gecko_bootloader_version"}
UnknownFields == {"unknown_" \o ToString(n) : n \in 1..MaxUnknown}

\* the gbl_metadata.yaml files that vary the declaration of the dynamic fields
DeclarationFiles ==
    { MakeDict([fw_type |-> fw, baudrate |-> baud, dynamic |-> dyn,
                compression |-> c, sign_key |-> Absent, encrypt_key |-> Absent]) :
        fw   \in {Absent, PyStr("gecko-bootloader"), PyStr("zigbee_ncp")},
        baud \in {Absent, PyNone, PyInt(115200)},
        dyn  \in {Absent, PyNone}
                 \cup {PyList(names) : names \in SUBSET (KnownFields \cup UnknownFields)},
        c    \in {Absent, PyStr("lz4")} }

\* the gbl_metadata.yaml files that vary the settings of the invocation
SettingsFiles ==
    { MakeDict([fw_type |-> fw, baudrate |-> PyInt(115200), dynamic |-> dyn,
                compression |-> c, sign_key |-> sk, encrypt_key |-> ek]) :
        fw   \in {Absent, PyStr("gecko-bootloader"), PyStr("zigbee_ncp"),
                  PyStr("ot-rcp")},
        dyn  \in {Absent, PyList({"ezsp_version"} \cup UnknownFields)},
        c    \in {Absent, PyNone, PyStr("lz4")},
        sk   \in {Absent, PyNone, PyStr("sign.key")},
        ek   \in {Absent, PyNone, PyStr("encrypt.key")} }

\* the device of the .slps file: the dotted projectCommon.partId attribute
PartIds == { <<"mcu", "arm", "efr32", "mg21", "efr32mg21a020f768im32">> }
upper == [x \in {"efr32mg21a020f768im32"} |-> "EFR32MG21A020F768IM32"]

InitScript ==
    /\ postbuild \in BOOLEAN
    \* lines 117-127
    /\ out_file = IF postbuild
                  THEN [dir |-> "/proj/build", stem |-> "ncp", suffix |-> ".out"]
                  ELSE [dir |-> "/proj/artifact", stem |-> "ncp", suffix |-> ".s37"]
    /\ pc = "find_slcp"
    /\ error = "none" /\ failed_at = "none"
    /\ gsdk_path = "" /\ slcp = EmptyDict /\ device_part_id = ""
    /\ gbl_metadata = EmptyDict /\ metadata = EmptyDict /\ gbl_dynamic = PyList({})
    /\ files_read = EmptyDict
    /\ written = <<>> /\ commander_args = <<>> /\ invoked = <<>>
    /\ file_content = <<>> /\ line_no = 0 /\ config = EmptyDict /\ outcome = "idle"
    /\ IdleToken /\ IdleFind

\* an uncaught exception ends the script
Raise(exc) ==
    /\ pc' = "failed" /\ error' = exc /\ failed_at' = pc

Continue ==
    /\ pc' = step_after(pc) /\ UNCHANGED <<error, failed_at>>

ScriptFrame == UNCHANGED <<parserVars, tokenVars, findVars, postbuild, out_file>>

\* lines 128-131: the project file is searched in the parent directories
FindSlcp ==
    /\ pc = "find_slcp"
    /\ \E is_found \in BOOLEAN :
          IF is_found THEN Continue ELSE Raise("FileNotFoundError")
    /\ UNCHANGED <<gsdk_path, slcp, device_part_id, gbl_metadata, metadata,
                   gbl_dynamic, files_read, written, commander_args, invoked>>
    /\ ScriptFrame

\* lines 150-152: the BASE_SDK_PATH of the parsed Makefile
BaseSdkPath(r) ==
    IF <<"BASE_SDK_PATH">> \notin DOMAIN r.config
    THEN gsdk_path' = gsdk_path /\ Raise("KeyError")
    ELSE gsdk_path' = concat(r.config[<<"BASE_SDK_PATH">>]) /\ Continue

\* lines 136-152: the SDK path, from the .cmake file or from the Makefile
GsdkPath ==
    /\ pc = "gsdk_path"
    /\ IF postbuild
       THEN \E r \in {"ok", "FileNotFoundError", "IndexError"} :
              IF r = "ok"
              THEN gsdk_path' = "/opt/gsdk" /\ Continue
              ELSE gsdk_path' = gsdk_path /\ Raise(r)
       ELSE \E text \in MakefileTexts \cup {Missing} :
              IF text = Missing
              THEN gsdk_path' = gsdk_path /\ Raise("FileNotFoundError")
              ELSE BaseSdkPath(parse_simple_config(text))
    /\ UNCHANGED <<slcp, device_part_id, gbl_metadata, metadata, gbl_dynamic,
                   files_read, written, commander_args, invoked>>
    /\ ScriptFrame

\* line 155
LoadSlcp ==
    /\ pc = "load_slcp"
    /\ slcp' \in SlcpFiles
    /\ Continue
    /\ UNCHANGED <<gsdk_path, device_part_id, gbl_metadata, metadata, gbl_dynamic,
                   files_read, written, commander_args, invoked>>
    /\ ScriptFrame

\* lines 158-166
DevicePartId ==
    /\ pc = "device_part_id"
    /\ \/ \E part \in PartIds :
            /\ device_part_id' = upper[part[Len(part)]]
            /\ Continue
       \/ \E exc \in {"FileNotFoundError", "ParseError", "AttributeError"} :
            /\ device_part_id' = device_part_id
            /\ Raise(exc)
    /\ UNCHANGED <<gsdk_path, slcp, gbl_metadata, metadata, gbl_dynamic,
                   files_read, written, commander_args, invoked>>
    /\ ScriptFrame

\* line 168
LoadGblMetadata(files) ==
    /\ pc = "load_gbl_metadata"
    /\ \/ gbl_metadata' \in files /\ Continue
       \/ gbl_metadata' = gbl_metadata /\ Raise("FileNotFoundError")
    /\ UNCHANGED <<gsdk_path, slcp, device_part_id, metadata, gbl_dynamic,
                   files_read, written, commander_args, invoked>>
    /\ ScriptFrame

\* line 172
metadata_version == 1

\* lines 171-179
PrepareMetadata ==
    /\ pc = "prepare_metadata"
    /\ IF /\ "sdk" \in DOMAIN slcp /\ "version" \in DOMAIN slcp["sdk"]
          /\ {"fw_type", "baudrate"} \subseteq DOMAIN gbl_metadata
       THEN /\ metadata' = ("metadata_version" :> PyInt(metadata_version)
                            @@ "sdk_version" :> slcp["sdk"]["version"]
                            @@ "fw_type" :> gbl_metadata["fw_type"]
                            @@ "baudrate" :> gbl_metadata["baudrate"])
            /\ gbl_dynamic' = get(gbl_metadata, "dynamic", PyList({}))
            /\ Continue
       ELSE /\ UNCHANGED <<metadata, gbl_dynamic>>
            /\ Raise("KeyError")
    /\ UNCHANGED <<gsdk_path, slcp, device_part_id, gbl_metadata, files_read,
                   written, commander_args, invoked>>
    /\ ScriptFrame

\* Mutation of lines 181-221: a field is extracted whether declared or not.
declares_always(dyn, name) == TRUE

\* lines 181, 187, 209, 215, 221: name in gbl_dynamic
declares(dyn, name) == name \in dyn.items

\* lines 182-185 and 210-213: the first token of "version" of an esf.properties
first_token_str(first) ==
    IF first.exc # "none" THEN first
    ELSE [exc |-> "none", val |-> PyStr(concat(first.val))]

version_of(props) ==
    IF props.raised # "none" THEN [exc |-> props.raised]
    ELSE first_token_str(first_version(props.config))

esf_version(text) ==
    IF text = Missing THEN [exc |-> "FileNotFoundError"]
    ELSE version_of(parse_properties_file(text))

\* a header read and parsed, as at lines 188-190, 216-218, 222-224
read_header(text) ==
    IF text = Missing THEN [raised |-> "FileNotFoundError", config |-> EmptyDict]
    ELSE parse_c_header_defines(text)

\* Mutation of lines 199-204: the missing file is not tolerated.
read_optional_header_strict(text) == read_header(text)

\* lines 199-204: the header whose absence is tolerated
read_optional_header(text) ==
    IF text = Missing THEN [raised |-> "none", config |-> EmptyDict]
    ELSE parse_c_header_defines(text)

\* lines 191-197 and 226-232: ".".join of str() of three defines
dotted(header, major, minor, patch) ==
    IF header.raised # "none" THEN [exc |-> header.raised]
    ELSE IF ~({major, minor, patch} \subseteq DOMAIN header.config)
    THEN [exc |-> "KeyError"]
    ELSE [exc |-> "none",
          val |-> PyStr(str(header.config[major]) \o "." \o str(header.config[minor])
                        \o "." \o str(header.config[patch]))]

\* lines 206-207: metadata["cpc_version"] += the suffix, when defined
with_suffix_define(version, app_config) ==
    IF app_config.raised # "none" THEN [exc |-> app_config.raised]
    ELSE IF "CPC_SECONDARY_APP_VERSION_SUFFIX" \notin DOMAIN app_config.config
    THEN [exc |-> "none", val |-> version]
    ELSE IF app_config.config["CPC_SECONDARY_APP_VERSION_SUFFIX"].t = "str"
    THEN [exc |-> "none",
          val |-> PyStr(version.s
                        \o app_config.config["CPC_SECONDARY_APP_VERSION_SUFFIX"].s)]
    ELSE [exc |-> "TypeError"]          \* str += a value that is no str

\* lines 215-219: PACKAGE_STRING, unmodified
package_string(header) ==
    IF header.raised # "none" THEN [exc |-> header.raised]
    ELSE IF "PACKAGE_STRING" \notin DOMAIN header.config THEN [exc |-> "KeyError"]
    ELSE [exc |-> "none", val |-> header.config["PACKAGE_STRING"]]

EsfZigbee  == "protocol/zigbee/esf.properties"
EsfZwave   == "protocol/z-wave/esf.properties"
VersionH   == "platform/common/inc/sl_gsdk_version.h"
AppConfigH == "config/internal_app_config.h"
OpenthreadH == "config/sl_openthread_generic_config.h"
BootloaderH == "platform/bootloader/config/btl_config.h"

\* lines 181, 187, 209, 215, 221 when the body of the `if` is not entered:
\* `in` applied to None raises TypeError, a name not declared is passed over
skipped(name) == gbl_dynamic = PyNone \/ ~declares(gbl_dynamic, name)

SkipField ==
    /\ IF gbl_dynamic = PyNone THEN Raise("TypeError") ELSE Continue
    /\ UNCHANGED <<metadata, files_read>>

\* the body of the `if` of a field resolved from one file (lines 182-185,
\* 210-213, 216-219, 222-232): the file is read, the value r extracted from
\* it is stored, an exception of the extraction ends the run
StoreField(name, file, text, r) ==
    /\ files_read' = Put(files_read, file, text)
    /\ IF r.exc = "none"
       THEN metadata' = Put(metadata, name, r.val) /\ Continue
       ELSE metadata' = metadata /\ Raise(r.exc)

FieldFrame ==
    /\ UNCHANGED <<gsdk_path, slcp, device_part_id, gbl_metadata, gbl_dynamic,
                   written, commander_args, invoked>>
    /\ ScriptFrame

\* lines 181-185
EzspVersion ==
    /\ pc = "ezsp_version"
    /\ IF skipped("ezsp_version") THEN SkipField
       ELSE \E text \in EsfTexts \cup {Missing} :
               StoreField("ezsp_version", EsfZigbee, text, esf_version(text))
    /\ FieldFrame

\* lines 206-207: the suffix is appended to the version already stored
StoreSuffixed(version, r) ==
    IF r.exc = "none"
    THEN metadata' = Put(metadata, "cpc_version", r.val) /\ Continue
    ELSE metadata' = Put(metadata, "cpc_version", version.val) /\ Raise(r.exc)

\* lines 188-207: version is the dotted string of lines 191-197 or the
\* exception of lines 188-195, app_config the mapping of lines 199-204
StoreCpcVersion(text, app_text, version, app_config) ==
    IF version.exc # "none"
    THEN /\ files_read' = Put(files_read, VersionH, text)
         /\ metadata' = metadata
         /\ Raise(version.exc)
    ELSE /\ files_read' = Put(Put(files_read, VersionH, text), AppConfigH, app_text)
         /\ StoreSuffixed(version, with_suffix_define(version.val, app_config))

\* lines 187-207
CpcVersion ==
    /\ pc = "cpc_version"
    /\ IF skipped("cpc_version") THEN SkipField
       ELSE \E text \in VersionHeaderTexts \cup {Missing},
               app_text \in AppConfigTexts \cup {Missing} :
               StoreCpcVersion(text, app_text,
                               dotted(read_header(text), "SL_GSDK_MAJOR_VERSION",
                                      "SL_GSDK_MINOR_VERSION", "SL_GSDK_PATCH_VERSION"),
                               read_optional_header(app_text))
    /\ FieldFrame

\* lines 209-213
ZwaveVersion ==
    /\ pc = "zwave_version"
    /\ IF skipped("zwave_version") THEN SkipField
       ELSE \E text \in EsfTexts \cup {Missing} :
               StoreField("zwave_version", EsfZwave, text, esf_version(text))
    /\ FieldFrame

\* lines 215-219
OtRcpVersion ==
    /\ pc = "ot_rcp_version"
    /\ IF skipped("ot_rcp_version") THEN SkipField
       ELSE \E text \in OpenthreadTexts \cup {Missing} :
               StoreField("ot_rcp_version", OpenthreadH, text,
                          package_string(read_header(text)))
    /\ FieldFrame

\* lines 221-232
GeckoBootloaderVersion ==
    /\ pc = "gecko_bootloader_version"
    /\ IF skipped("gecko_bootloader_version") THEN SkipField
       ELSE \E text \in BootloaderTexts \cup {Missing} :
               StoreField("gecko_bootloader_version", BootloaderH, text,
                          dotted(read_header(text), "BOOTLOADER_VERSION_MAIN_MAJOR",
                                 "BOOTLOADER_VERSION_MAIN_MINOR",
                                 "BOOTLOADER_VERSION_MAIN_CUSTOMER"))
    /\ FieldFrame

\* line 237: gbl_metadata.json is written
WriteMetadata ==
    /\ pc = "write_metadata"
    /\ written' = Append(written, json_dumps(metadata))
    /\ Continue
    /\ UNCHANGED <<gsdk_path, slcp, device_part_id, gbl_metadata, metadata,
                   gbl_dynamic, files_read, commander_args, invoked>>
    /\ ScriptFrame

\* Mutation of line 251: the two mode flags are exchanged.
mode_flag_exchanged(fw_type) ==
    IF fw_type # PyStr("gecko-bootloader") THEN "--bootloader" ELSE "--app"

\* line 251
mode_flag(fw_type) ==
    IF fw_type # PyStr("gecko-bootloader") THEN "--app" ELSE "--bootloader"

\* lines 259-266: a flag and its value, for a setting that is not None
optional_flag(settings, flag, name) ==
    IF get(settings, name, PyNone) # PyNone
    THEN <<PyStr(flag), settings[name]>>
    ELSE <<>>

\* lines 246-266
BuildCommanderArgs ==
    /\ pc = "commander_args"
    /\ commander_args' =
          << PyStr("commander"), PyStr("gbl"), PyStr("create"),
             PyStr(path_str(with_suffix(out_file, ".gbl"))),
             PyStr(mode_flag(gbl_metadata["fw_type"])),
             PyStr(path_str(out_file)),
             PyStr("--device"), PyStr(device_part_id),
             PyStr("--metadata"), PyStr(in_dir(out_file.dir, "gbl_metadata.json")) >>
          \o optional_flag(gbl_metadata, "--compress", "compression")
          \o optional_flag(gbl_metadata, "--sign", "sign_key")
          \o optional_flag(gbl_metadata, "--encrypt", "encrypt_key")
    /\ Continue
    /\ UNCHANGED <<gsdk_path, slcp, device_part_id, gbl_metadata, metadata,
                   gbl_dynamic, files_read, written, invoked>>
    /\ ScriptFrame

\* line 269: subprocess.run(commander_args, check=True)
RunCommander ==
    /\ pc = "run_commander"
    /\ \E returncode \in {0, 1} :
          /\ invoked' = Append(invoked, [args |-> commander_args,
                                         returncode |-> returncode])
          /\ IF returncode = 0 THEN Continue ELSE Raise("CalledProcessError")
    /\ UNCHANGED <<gsdk_path, slcp, device_part_id, gbl_metadata, metadata,
                   gbl_dynamic, files_read, written, commander_args>>
    /\ ScriptFrame

ScriptStep ==
    \/ FindSlcp \/ GsdkPath \/ LoadSlcp \/ DevicePartId
    \/ PrepareMetadata \/ EzspVersion \/ CpcVersion \/ ZwaveVersion
    \/ OtRcpVersion \/ GeckoBootloaderVersion \/ WriteMetadata
    \/ BuildCommanderArgs \/ RunCommander

LoadDeclarations == LoadGblMetadata(DeclarationFiles)
LoadSettings     == LoadGblMetadata(SettingsFiles)

NextScript     == ScriptStep \/ LoadDeclarations
NextInvocation == ScriptStep \/ LoadSettings

\* the script over the projects that vary the declared dynamic fields
SpecScript == InitScript /\ [][NextScript]_vars

\* the script over the projects that vary the settings of the invocation
SpecInvocation == InitScript /\ [][NextInvocation]_vars

(***************************************************************************)
(* What the text of a line says, stated without the parser's helpers.      *)
(***************************************************************************)
\* s with the whitespace at both ends removed
Trimmed(s) ==
    LET keep == {n \in DOMAIN s : s[n] \notin Whitespace} IN
    IF keep = {} THEN <<>>
    ELSE LET lo == CHOOSE n \in keep : \A m \in keep : n <= m
             hi == CHOOSE n \in keep : \A m \in keep : m <= n
         IN  [n \in 1..(hi - lo + 1) |-> s[lo + n - 1]]

\* position of the first "=" of s (s contains one)
FirstEq(s) == CHOOSE n \in DOMAIN s : s[n] = "=" /\ \A m \in 1..(n - 1) : s[m] # "="

Before(s, p) == [n \in 1..(p - 1) |-> s[n]]
After(s, p)  == [n \in 1..(Len(s) - p) |-> s[p + n]]

\* the lines of a text: the pieces between consecutive newlines
LinesOf(text) ==
    LET nl  == {n \in DOMAIN text : text[n] = "\n"}
        cut == nl \cup {0, Len(text) + 1}
        nth(k) == CHOOSE c \in cut : Cardinality({d \in cut : d < c}) = k
    IN  [k \in 1..(Cardinality(nl) + 1) |->
            [n \in 1..(nth(k) - nth(k - 1) - 1) |-> text[nth(k - 1) + n]]]

\* a line that is non-blank, no comment and contains "=", after trimming
IsEntryLine(l) ==
    LET t == Trimmed(l) IN t # <<>> /\ t[1] # "#" /\ \E n \in DOMAIN t : t[n] = "="

EntryKey(l)   == LET t == Trimmed(l) IN Trimmed(Before(t, FirstEq(t)))
EntryValue(l) == LET t == Trimmed(l) IN Trimmed(After(t, FirstEq(t)))

\* C10: parse_simple_config never raises; on return the mapping holds exactly
\* the keys of the entry lines (trimmed non-blank, non-comment lines with "="),
\* each mapped to the trimmed value of the last entry line with that key.
C10_SimpleConfigRecoversEntries ==
    /\ outcome \in {"running", "returned"}
    /\ outcome = "returned" =>
        LET lines   == LinesOf(file_content)
            entries == {n \in DOMAIN lines : IsEntryLine(lines[n])}
        IN
        /\ DOMAIN config = {EntryKey(lines[n]) : n \in entries}
        /\ \A n \in entries :
              (\A m \in entries : EntryKey(lines[m]) = EntryKey(lines[n]) => m <= n)
              => config[EntryKey(lines[n])] = EntryValue(lines[n])

\* a returned parse of two entry lines with the same key and different values,
\* next to a line that is no entry
C10_Witness ==
    /\ outcome = "returned"
    /\ LET lines == LinesOf(file_content) IN
       \E n, m \in DOMAIN lines :
          /\ n < m
          /\ IsEntryLine(lines[n]) /\ IsEntryLine(lines[m])
          /\ EntryKey(lines[n]) = EntryKey(lines[m])
          /\ EntryValue(lines[n]) # EntryValue(lines[m])
          /\ config[EntryKey(lines[m])] = EntryValue(lines[m])

(***************************************************************************)
(* parse_c_header_defines: what the claim says of it.                      *)
(***************************************************************************)
\* the parts of a line after "#define": name and value text
DefineParts(l) == Tail(split_whitespace(l, 2))

\* a line starting with "#define" whose value evaluates as a literal
IsLiteralDefine(l) ==
    /\ startswith(l, <<"#define">>)
    /\ Len(DefineParts(l)) = 2
    /\ literal_eval(DefineParts(l)[2], FALSE).exc = "none"

\* C8: for every input text parse_c_header_defines returns a mapping without
\* raising; the mapping holds exactly the names of the "#define" lines whose
\* value evaluates as a literal, each mapped to that literal (the last such
\* line of a name counts); every other line contributes nothing.
C8_DefinesNeverRaise ==
    /\ outcome \in {"running", "returned"}
    /\ outcome = "returned" =>
        LET lines   == LinesOf(file_content)
            entries == {n \in DOMAIN lines : IsLiteralDefine(lines[n])}
            name(n) == concat(DefineParts(lines[n])[1])
        IN
        /\ DOMAIN config = {name(n) : n \in entries}
        /\ \A n \in entries :
              (\A m \in entries : name(m) = name(n) => m <= n)
              => config[name(n)] = literal_eval(DefineParts(lines[n])[2], FALSE).val

(***************************************************************************)
(* parse_properties_file: what the claim says of it.                       *)
(***************************************************************************)
Backslash == "\\"

\* the number of backslashes that immediately precede position n of v
BackslashesBefore(v, n) ==
    Cardinality({m \in 1..(n - 1) : \A k \in m..(n - 1) : v[k] = Backslash})

\* position n starts a pair of two consecutive backslashes (pairs are taken
\* from the left), or ends one
PairFirst(v, n) ==
    /\ n \in 1..(Len(v) - 1)
    /\ v[n] = Backslash /\ v[n + 1] = Backslash
    /\ BackslashesBefore(v, n) % 2 = 0
PairSecond(v, n) == n > 1 /\ PairFirst(v, n - 1)

\* the text strictly between positions lo and hi, each pair replaced by a space
Unescaped(v, lo, hi) ==
    LET kept   == {n \in (lo + 1)..(hi - 1) : ~PairSecond(v, n)}
        nth(j) == CHOOSE c \in kept : Cardinality({d \in kept : d < c}) = j - 1
    IN  [j \in 1..Cardinality(kept) |->
            IF PairFirst(v, nth(j)) THEN " " ELSE v[nth(j)]]

\* the tokens of a value: the unescaped pieces between its spaces, without the
\* piece after the last space when that piece is empty
TokensOf(v) ==
    LET sep    == {n \in DOMAIN v : v[n] = " "}
        cut    == sep \cup {0, Len(v) + 1}
        nth(k) == CHOOSE c \in cut : Cardinality({d \in cut : d < c}) = k
        all    == [k \in 1..(Cardinality(sep) + 1) |->
                     Unescaped(v, nth(k - 1), nth(k))]
    IN  IF all[Len(all)] = <<>> THEN [k \in 1..(Len(all) - 1) |-> all[k]] ELSE all

\* a non-blank, non-comment line key=value
IsPropsLine(l) == IsEntryLine(l)

\* line n has been tokenized completely
Tokenized(n) == n < line_no \/ (n = line_no /\ ~in_line)

\* the tokenized key=value lines that no later tokenized line of the same key
\* has replaced
StoredLines ==
    LET lines == LinesOf(file_content) IN
    {n \in DOMAIN lines :
        /\ Tokenized(n) /\ IsPropsLine(lines[n])
        /\ \A m \in (n + 1)..line_no :
              IsPropsLine(lines[m]) => EntryKey(lines[m]) # EntryKey(lines[n])}

\* the text after the first "=" of the line as given / of the trimmed line
RawValue(l)     == After(l, FirstEq(l))
TrimmedValue(l) == After(Trimmed(l), FirstEq(Trimmed(l)))
ValueOf(l, trimmed) == IF trimmed THEN TrimmedValue(l) ELSE RawValue(l)

\* the version field is the first token of the list stored for "version"
FirstTokenTaken(trimmed) ==
    outcome = "extracted" =>
        \E n \in StoredLines :
            /\ EntryKey(LinesOf(file_content)[n]) = <<"version">>
            /\ first_token = TokensOf(ValueOf(LinesOf(file_content)[n], trimmed))[1]

\* the documentation's example yields {"version": ["1 2 3", "extra"]}
ExampleParsed ==
    (file_content = ExampleProps /\ outcome \in {"returned", "extracted"}) =>
        config = (<<"version">> :> << <<"1", " ", "2", " ", "3">>, <<"extra">> >>)

\* C9 as stated: the token list stored for the key of a non-blank, non-comment
\* line key=value is the list of tokens of the text after the first "=" of that
\* line (two backslashes give a space, a space ends a token, a non-empty last
\* token is kept); the example yields ["1 2 3", "extra"]; the version field is
\* the first token.
C9_TokensOfLine ==
    /\ outcome \notin {"ValueError"} =>
        \A n \in StoredLines :
            config[EntryKey(LinesOf(file_content)[n])]
                = TokensOf(RawValue(LinesOf(file_content)[n]))
    /\ FirstTokenTaken(FALSE)
    /\ ExampleParsed

\* C9 amended: the same, the scanned text being the text after the first "=" of
\* the line with its leading and trailing whitespace removed.
C9_TokensOfTrimmedLine ==
    /\ outcome \notin {"ValueError"} =>
        \A n \in StoredLines :
            config[EntryKey(LinesOf(file_content)[n])]
                = TokensOf(TrimmedValue(LinesOf(file_content)[n]))
    /\ FirstTokenTaken(TRUE)
    /\ ExampleParsed

\* the example has been parsed and its first token taken as the version
C9_Witness ==
    /\ file_content = ExampleProps
    /\ outcome = "extracted"
    /\ first_token = <<"1", " ", "2", " ", "3">>

(***************************************************************************)
(* The script: what the claims say of it.                                  *)
(***************************************************************************)
RequiredKeys == {"metadata_version", "sdk_version", "fw_type", "baudrate"}

\* the names of the `dynamic` list of the project, none when the list is absent
Declared ==
    IF "dynamic" \in DOMAIN gbl_metadata /\ gbl_metadata["dynamic"].t = "list"
    THEN gbl_metadata["dynamic"].items
    ELSE {}

\* the files the extraction of a field reads
FilesOf(name) ==
    CASE name = "ezsp_version"   -> {EsfZigbee}
      [] name = "cpc_version"    -> {VersionH, AppConfigH}
      [] name = "zwave_version"  -> {EsfZwave}
      [] name = "ot_rcp_version" -> {OpenthreadH}
      [] name = "gecko_bootloader_version" -> {BootloaderH}
      [] OTHER -> {}

\* the resolution of the record has completed
Resolved ==
    \/ pc \in {"write_metadata", "commander_args", "run_commander", "done"}
    \/ pc = "failed" /\ failed_at = "run_commander"

\* C1: when resolution completes, the keys of the record are the four required
\* keys and the declared names among the five known ones, metadata_version is
\* 1, and an unknown name reads no file, adds no key and raises no error.
C1_MetadataKeys ==
    /\ Resolved =>
        /\ DOMAIN metadata = RequiredKeys \cup (Declared \cap KnownFields)
        /\ metadata["metadata_version"] = PyInt(1)
    /\ DOMAIN files_read \subseteq UNION {FilesOf(name) : name \in Declared}
    /\ (pc = "failed" /\ failed_at \in KnownFields /\ gbl_dynamic # PyNone)
          => failed_at \in Declared

\* a run to the end of a project that declares an unknown name, cpc_version and
\* zwave_version, and not ezsp_version
C1_Witness ==
    /\ pc = "done"
    /\ Declared = {"unknown_1", "cpc_version", "zwave_version"}
    /\ DOMAIN metadata = RequiredKeys \cup {"cpc_version", "zwave_version"}

\* the steps before gbl_metadata.json is written
BeforeWrite ==
    {"find_slcp", "gsdk_path", "load_slcp", "device_part_id", "load_gbl_metadata",
     "prepare_metadata"} \cup KnownFields

\* C2: a run in which a step before the write fails (other than by the absence
\* of the optional suffix header, which is no failure) has ended with an error,
\* has written no metadata file and has not invoked the external tool; so a
\* metadata file is written only after every declared field was resolved from
\* files that exist.
C2_NoPartialSuccess ==
    /\ (pc = "failed" /\ failed_at \in BeforeWrite) =>
          /\ error # "none"
          /\ written = <<>> /\ invoked = <<>>
          /\ ~ENABLED NextScript
    /\ (written # <<>> \/ invoked # <<>>) =>
          /\ ~(pc = "failed" /\ failed_at \in BeforeWrite)
          /\ Declared \cap KnownFields \subseteq DOMAIN metadata
          /\ \A file \in DOMAIN files_read \ {AppConfigH} : files_read[file] # Missing

\* the optional suffix header was absent, which was tolerated, and the run then
\* failed on a missing key of the OpenThread header
C2_Witness ==
    /\ pc = "failed" /\ failed_at = "ot_rcp_version" /\ error = "KeyError"
    /\ "cpc_version" \in DOMAIN metadata
    /\ files_read[AppConfigH] = Missing
    /\ written = <<>> /\ invoked = <<>>

\* C3: when the external tool is about to be or has been invoked, the metadata
\* file has been written exactly once, with the serialization of the fully
\* resolved record; the tool is invoked at most once, with the assembled
\* tokens, and a non-zero exit ends the run in failure.
C3_WriteThenInvokeOnce ==
    /\ Len(written) <= 1 /\ Len(invoked) <= 1
    /\ (pc = "run_commander" \/ invoked # <<>>) =>
          /\ Len(written) = 1
          /\ DOMAIN metadata = RequiredKeys \cup (Declared \cap KnownFields)
          /\ DOMAIN written[1] = DOMAIN metadata
          /\ written[1]["metadata_version"] = "1"
          /\ \A k \in DOMAIN metadata :
                written[1][k] = CASE metadata[k].t = "str" -> "\"" \o metadata[k].s \o "\""
                                  [] metadata[k].t = "int" -> ToString(metadata[k].n)
                                  [] metadata[k].t = "none" -> "null"
    /\ invoked # <<>> =>
          /\ invoked[1].args = commander_args
          /\ invoked[1].returncode # 0 => (pc = "failed" /\ error = "CalledProcessError")
          /\ invoked[1].returncode = 0 => pc = "done"

\* the tool has exited non-zero after a record with two dynamic fields was written
C3_Witness ==
    /\ invoked # <<>> /\ invoked[1].returncode = 1
    /\ pc = "failed"
    /\ Len(written) = 1
    /\ DOMAIN written[1] = RequiredKeys \cup {"ezsp_version", "gecko_bootloader_version"}
    /\ written[1]["ezsp_version"] = "\"7.4.1.0\""
    /\ written[1]["gecko_bootloader_version"] = "\"2.4.1\""

\* the invocation has been assembled
Assembled == pc \in {"run_commander", "done"} \/ invoked # <<>>

\* the tokens a setting contributes
SettingTokens(flag, name) ==
    IF name \in DOMAIN gbl_metadata /\ gbl_metadata[name].t # "none"
    THEN <<PyStr(flag), gbl_metadata[name]>>
    ELSE <<>>

\* C4: the invocation is commander gbl create <output>.gbl MODE <binary>
\* --device <part> --metadata <metadata file>, then --compress, --sign and
\* --encrypt with their values for the settings that are present and not null;
\* MODE is --bootloader iff fw_type is "gecko-bootloader", else --app.
C4_InvocationTokens ==
    Assembled =>
        LET dir  == IF postbuild THEN "/proj/build" ELSE "/proj/artifact"
            bin  == IF postbuild THEN "/proj/build/ncp.out" ELSE "/proj/artifact/ncp.s37"
            mode == IF gbl_metadata["fw_type"].s = "gecko-bootloader"
                    THEN "--bootloader" ELSE "--app"
        IN
        /\ commander_args =
              << PyStr("commander"), PyStr("gbl"), PyStr("create"),
                 PyStr(dir \o "/ncp.gbl"), PyStr(mode), PyStr(bin),
                 PyStr("--device"), PyStr("EFR32MG21A020F768IM32"),
                 PyStr("--metadata"), PyStr(dir \o "/gbl_metadata.json") >>
              \o SettingTokens("--compress", "compression")
              \o SettingTokens("--sign", "sign_key")
              \o SettingTokens("--encrypt", "encrypt_key")
        /\ Cardinality({n \in DOMAIN commander_args :
                          commander_args[n] \in {PyStr("--app"), PyStr("--bootloader")}}) = 1

\* a bootloader project with a null compression, a signing key and no
\* encryption key has been assembled: ... --bootloader ... --sign sign.key
C4_Witness ==
    /\ Assembled
    /\ gbl_metadata["fw_type"] = PyStr("gecko-bootloader")
    /\ "compression" \in DOMAIN gbl_metadata /\ gbl_metadata["compression"] = PyNone
    /\ "sign_key" \in DOMAIN gbl_metadata /\ gbl_metadata["sign_key"] = PyStr("sign.key")
    /\ "encrypt_key" \notin DOMAIN gbl_metadata
    /\ Len(commander_args) = 12
    /\ commander_args[5] = PyStr("--bootloader")
    /\ commander_args[11] = PyStr("--sign")

\* ---- cpc_version
\* the lines of a header text that define name
DefineLines(text, name) ==
    IF text = Missing THEN {}
    ELSE {l \in Range(LinesOf(text)) :
            /\ Len(l) >= 3
            /\ l[1] = "#define" /\ l[2] \in Whitespace /\ l[3] = name
            /\ (Len(l) = 3 \/ l[4] \in Whitespace)}

\* the value text of a defining line
DefinedText(l) == Trimmed([n \in 1..(Len(l) - 3) |-> l[n + 3]])

\* a decimal integer literal; a string literal
IsIntLiteral(v) ==
    /\ v # <<>> /\ \A n \in DOMAIN v : v[n] \in DOMAIN Digit
    /\ (Len(v) = 1 \/ v[1] # "0")
IsStrLiteral(v) == Len(v) = 1 /\ v[1] \in DOMAIN StrLit

\* the text of a header defines name, in any way / as a literal of a kind
Defines(text, name) == DefineLines(text, name) # {}
DefinesInt(text, name) == \E l \in DefineLines(text, name) : IsIntLiteral(DefinedText(l))
DefinesStr(text, name) == \E l \in DefineLines(text, name) : IsStrLiteral(DefinedText(l))
TheText(text, name) == DefinedText(CHOOSE l \in DefineLines(text, name) : TRUE)

VersionNames ==
    <<"SL_GSDK_MAJOR_VERSION", "SL_GSDK_MINOR_VERSION", "SL_GSDK_PATCH_VERSION">>
SuffixName == "CPC_SECONDARY_APP_VERSION_SUFFIX"

\* the digits of the three defines, joined with dots
Dotted(text) ==
    concat(TheText(text, VersionNames[1])) \o "." \o concat(TheText(text, VersionNames[2]))
        \o "." \o concat(TheText(text, VersionNames[3]))

\* cpc_version is declared and the version header has been read
CpcReached == "cpc_version" \in Declared /\ VersionH \in DOMAIN files_read

CpcResolvedAs(version) ==
    /\ ~(pc = "failed" /\ failed_at = "cpc_version")
    /\ "cpc_version" \in DOMAIN metadata
    /\ metadata["cpc_version"] = PyStr(version)

C7_NoNullField ==
    written # <<>> =>
        \A k \in DOMAIN metadata :
            metadata[k] # PyNone /\ written[1][k] # "null"

====
